---- MODULE Spec2Model ----
(***************************************************************************)
(* Instruction helpers of the template pipeline                            *)
(* (packages/compiler/src/template/pipeline/src/instruction.ts) and the    *)
(* module scope registry exported by                                       *)
(* packages/compiler-cli/src/ngtsc/scope/index.ts.                         *)
(*                                                                         *)
(* Every helper of instruction.ts is a pure function.  The model keeps the *)
(* last call (fn, input) and what it produced (result): either the emitted *)
(* call (instruction reference and argument list) or the thrown error.     *)
(***************************************************************************)
EXTENDS Integers, Sequences, FiniteSets, TLC

VARIABLES fn, input, result, graph, cache, stack, root, resolved

vars == <<fn, input, result, graph, cache, stack, root, resolved>>

instrVars == <<fn, input, result>>

scopeVars == <<graph, cache, stack, root, resolved>>

(***************************************************************************)
(* Bounds of the inputs.                                                   *)
(***************************************************************************)
MaxSlot == 2
MaxIndex == 1
MaxSteps == 3
MaxStrings == 10
MaxExprs == 10
MaxVariadicArgs == 21

Slots == 0..MaxSlot

Tags == {"div", "span"}

StringValues == {"", "a"}

\* number|null and string|null parameters: <<>> is null, <<v>> is the value v.
None == <<>>

Some(v) == <<v>>

NullableIndexes == {None} \cup {Some(i) : i \in 0..MaxIndex}

(***************************************************************************)
(* Output AST nodes (o.Expression).  All nodes share one record shape.     *)
(***************************************************************************)
\* o.literal(n) for a number n
LitNum(n) == [kind |-> "literal", type |-> "number", num |-> n, str |-> "", entries |-> <<>>]

\* o.literal(s) for a string s
LitStr(s) == [kind |-> "literal", type |-> "string", num |-> 0, str |-> s, entries |-> <<>>]

\* o.literal(null)
LitNull == [kind |-> "literal", type |-> "null", num |-> 0, str |-> "", entries |-> <<>>]

\* o.literal(v) for v: number|null
LiteralOpt(v) == IF v = None THEN LitNull ELSE LitNum(v[1])

\* o.literalArr(entries)
LiteralArr(es) == [kind |-> "literalArr", type |-> "array", num |-> 0, str |-> "", entries |-> es]

\* an opaque o.Expression handed in by the caller, with identity id
Expr(id) == [kind |-> "expr", type |-> "expr", num |-> id, str |-> "", entries |-> <<>>]

\* expression arrays of length k: every position holds a distinct expression
ExprSeqs(k) == {[i \in 1..k |-> Expr(i)], [i \in 1..k |-> Expr(k + 1 - i)]}

\* string arrays of length k
StringSeqs(k) == [1..k -> StringValues]

(***************************************************************************)
(* Results: an emitted call, or a thrown Error.                            *)
(***************************************************************************)
Call(instruction, args) == [status |-> "ok", instruction |-> instruction, args |-> args, message |-> ""]

Throw(msg) == [status |-> "throw", instruction |-> "", args |-> <<>>, message |-> msg]

ShapeError == "AssertionError: expected specific shape of args for strings/expressions in interpolation"

OddError == "Expected odd number of arguments"

VariadicError == "AssertionError: unable to call variadic function"

(***************************************************************************)
(* element / container instructions                                        *)
(***************************************************************************)
\* mutant: the slot of an absent constIndex is dropped before localRefIndex
ElementOrContainerBase_DropNullConst(instruction, slot, tag, constIndex, localRefIndex) ==
  LET args0 == <<LitNum(slot)>>
      args1 == IF tag # None THEN Append(args0, LitStr(tag[1])) ELSE args0
      args2 == IF constIndex # None THEN Append(args1, LitNum(constIndex[1])) ELSE args1
      args3 == IF localRefIndex # None THEN Append(args2, LitNum(localRefIndex[1])) ELSE args2
  IN  Call(instruction, args3)

ElementOrContainerBase(instruction, slot, tag, constIndex, localRefIndex) ==
  LET args0 == <<LitNum(slot)>>
      args1 == IF tag # None THEN Append(args0, LitStr(tag[1])) ELSE args0
      args2 == IF localRefIndex # None
                 THEN args1 \o <<LiteralOpt(constIndex), LitNum(localRefIndex[1])>>
                 ELSE IF constIndex # None
                        THEN Append(args1, LitNum(constIndex[1]))
                        ELSE args1
  IN  Call(instruction, args2)

ElementFn(slot, tag, constIndex, localRefIndex) ==
  ElementOrContainerBase("element", slot, Some(tag), constIndex, localRefIndex)

ElementStartFn(slot, tag, constIndex, localRefIndex) ==
  ElementOrContainerBase("elementStart", slot, Some(tag), constIndex, localRefIndex)

ElementContainerStartFn(slot, constIndex, localRefIndex) ==
  ElementOrContainerBase("elementContainerStart", slot, None, constIndex, localRefIndex)

ElementContainerFn(slot, constIndex, localRefIndex) ==
  ElementOrContainerBase("elementContainer", slot, None, constIndex, localRefIndex)

\* mutant: the argument is omitted for every steps <= 1
NextContextFn_OmitSmall(steps) ==
  Call("nextContext", IF steps <= 1 THEN <<>> ELSE <<LitNum(steps)>>)

NextContextFn(steps) ==
  Call("nextContext", IF steps = 1 THEN <<>> ELSE <<LitNum(steps)>>)

\* mutant: the initial value is always passed
TextFn_AlwaysValue(slot, initialValue) ==
  Call("text", <<LitNum(slot), LitStr(initialValue)>>)

TextFn(slot, initialValue) ==
  LET args0 == <<LitNum(slot)>>
      args1 == IF initialValue # "" THEN Append(args0, LitStr(initialValue)) ELSE args0
  IN  Call("text", args1)

(***************************************************************************)
(* variadic instructions                                                   *)
(***************************************************************************)
\* mutant: two entries of the constant list change places
TextInterpolateConstants_Misordered ==
  << "textInterpolate", "textInterpolate1", "textInterpolate3",
     "textInterpolate2", "textInterpolate4", "textInterpolate5",
     "textInterpolate6", "textInterpolate7", "textInterpolate8" >>

TextInterpolateConstants ==
  << "textInterpolate", "textInterpolate1", "textInterpolate2",
     "textInterpolate3", "textInterpolate4", "textInterpolate5",
     "textInterpolate6", "textInterpolate7", "textInterpolate8" >>

\* result of a mapping function: the number it returns, or the error it throws
MapOk(n) == [ok |-> TRUE, n |-> n, message |-> ""]

MapThrow(msg) == [ok |-> FALSE, n |-> 0, message |-> msg]

\* TEXT_INTERPOLATE_CONFIG.mapping
TextInterpolateMapping(n) ==
  IF n % 2 = 0 THEN MapThrow(OddError) ELSE MapOk((n - 1) \div 2)

\* a mapping that counts every argument (a config whose variants are
\* selected by the plain argument count)
CountMapping(n) == MapOk(n)

Mappings == {"textInterpolate", "count"}

\* config.mapping(argCount)
ApplyMapping(mapping, argCount) ==
  IF mapping = "textInterpolate" THEN TextInterpolateMapping(argCount)
                                 ELSE CountMapping(argCount)

TEXT_INTERPOLATE_CONFIG ==
  [constant |-> TextInterpolateConstants,
   variable |-> Some("textInterpolateV"),
   mapping  |-> "textInterpolate"]

\* the configs the collapser is exercised with: every prefix of the constant
\* list, with and without a variable form, under both mappings
Configs ==
  { [constant |-> SubSeq(TextInterpolateConstants, 1, k), variable |-> v, mapping |-> m] :
      k \in 0..Len(TextInterpolateConstants),
      v \in {None, Some("textInterpolateV")},
      m \in Mappings }

\* mutant: the variable form receives the arguments spread, not packed
CallVariadicInstructionExpr_Spread(config, baseArgs, interpolationArgs) ==
  LET m == ApplyMapping(config.mapping, Len(interpolationArgs))
  IN  IF ~m.ok THEN Throw(m.message)
      ELSE IF m.n < Len(config.constant)
             THEN Call(config.constant[m.n + 1], baseArgs \o interpolationArgs)
      ELSE IF config.variable # None
             THEN Call(config.variable[1], baseArgs \o interpolationArgs)
      ELSE Throw(VariadicError)

\* mutant: a configured variable form is preferred to the constant forms
CallVariadicInstructionExpr_VariableFirst(config, baseArgs, interpolationArgs) ==
  LET m == ApplyMapping(config.mapping, Len(interpolationArgs))
  IN  IF ~m.ok THEN Throw(m.message)
      ELSE IF config.variable # None
             THEN Call(config.variable[1], baseArgs \o <<LiteralArr(interpolationArgs)>>)
      ELSE IF m.n < Len(config.constant)
             THEN Call(config.constant[m.n + 1], baseArgs \o interpolationArgs)
      ELSE Throw(VariadicError)

CallVariadicInstructionExpr(config, baseArgs, interpolationArgs) ==
  LET m == ApplyMapping(config.mapping, Len(interpolationArgs))
  IN  IF ~m.ok THEN Throw(m.message)
      ELSE IF m.n < Len(config.constant)
             THEN Call(config.constant[m.n + 1], baseArgs \o interpolationArgs)
      ELSE IF config.variable # None
             THEN Call(config.variable[1], baseArgs \o <<LiteralArr(interpolationArgs)>>)
      ELSE Throw(VariadicError)

CallVariadicInstruction(config, baseArgs, interpolationArgs) ==
  CallVariadicInstructionExpr(config, baseArgs, interpolationArgs)

\* the loop of textInterpolate: literal(strings[idx]), expressions[idx] for
\* every expression, then the last string
RECURSIVE InterleaveFrom(_, _, _, _)
InterleaveFrom(strings, expressions, idx, acc) ==
  IF idx <= Len(expressions)
    THEN InterleaveFrom(strings, expressions, idx + 1,
                        acc \o <<LitStr(strings[idx]), expressions[idx]>>)
    ELSE Append(acc, LitStr(strings[idx]))

\* mutant: no special case for a single expression between empty strings
InterpolationArgs_NoDegenerate(strings, expressions) ==
  InterleaveFrom(strings, expressions, 1, <<>>)

\* mutant: the string after the last expression is not pushed
InterpolationArgs_NoLastString(strings, expressions) ==
  IF Len(expressions) = 1 /\ strings[1] = "" /\ strings[2] = ""
    THEN <<expressions[1]>>
    ELSE SubSeq(InterleaveFrom(strings, expressions, 1, <<>>), 1, 2 * Len(expressions))

\* the interpolationArgs array textInterpolate builds once the shape check passed
InterpolationArgs(strings, expressions) ==
  IF Len(expressions) = 1 /\ strings[1] = "" /\ strings[2] = ""
    THEN <<expressions[1]>>
    ELSE InterleaveFrom(strings, expressions, 1, <<>>)

\* mutant: the shape check only rejects too many expressions
TextInterpolateFn_LaxShape(strings, expressions) ==
  IF Len(strings) < 1 \/ Len(expressions) > Len(strings) - 1
    THEN Throw(ShapeError)
    ELSE CallVariadicInstruction(TEXT_INTERPOLATE_CONFIG, <<>>,
                                 InterpolationArgs(strings, expressions))

TextInterpolateFn(strings, expressions) ==
  IF Len(strings) < 1 \/ Len(expressions) # Len(strings) - 1
    THEN Throw(ShapeError)
    ELSE CallVariadicInstruction(TEXT_INTERPOLATE_CONFIG, <<>>,
                                 InterpolationArgs(strings, expressions))

(***************************************************************************)
(* Module scope registry (LocalModuleScopeRegistry): the module graph, the *)
(* resolution of one module's scope by a traversal that tracks the modules *)
(* in progress, and the cache of resolved scopes.                          *)
(***************************************************************************)
NumSymbols == 2

Symbols == 1..NumSymbols

Modules == {"A", "B"}

\* the module declaration graphs: every symbol is declared by one module;
\* imports are edges to modules; exports name symbols
Graphs ==
  { [declared |-> [m \in Modules |-> {s \in Symbols : owner[s] = m}],
     imports  |-> imp,
     exports  |-> exp] :
      owner \in [Symbols -> Modules],
      imp \in [Modules -> SUBSET Modules],
      exp \in [Modules -> SUBSET Symbols] }

EmptyGraph ==
  [declared |-> [m \in Modules |-> {}],
   imports  |-> [m \in Modules |-> {}],
   exports  |-> [m \in Modules |-> {}]]

Range(seq) == {seq[i] : i \in 1..Len(seq)}

\* add the symbols of set to the scope acc, deduplicated by identity
RECURSIVE AddAll(_, _)
AddAll(acc, set) ==
  IF set = {} THEN acc
  ELSE LET s == CHOOSE x \in set : \A y \in set : x <= y
       IN  AddAll(IF s \in Range(acc) THEN acc ELSE Append(acc, s), set \ {s})

\* mutant: an imported module contributes everything visible in it
Exported_All(g, m, visible) == Range(visible)

\* the symbols module m exports, given the symbols visible in it
Exported(g, m, visible) == g.exports[m] \cap Range(visible)

\* a module is in progress while a frame of the traversal belongs to it
InProgress(m) == \E i \in 1..Len(stack) : stack[i].module = m

FrameOf(m) == stack[CHOOSE i \in 1..Len(stack) : stack[i].module = m]

Frame(m) ==
  [module |-> m, todo |-> graph.imports[m], acc |-> AddAll(<<>>, graph.declared[m])]

ScopeIdle ==
  /\ graph = EmptyGraph
  /\ cache = [m \in Modules |-> None]
  /\ stack = <<>>
  /\ root = ""
  /\ resolved = <<>>

\* the graph is populated before any resolve call
ScopeInit ==
  /\ graph \in Graphs
  /\ cache = [m \in Modules |-> None]
  /\ stack = <<>>
  /\ root = ""
  /\ resolved = <<>>
  /\ fn = "none"
  /\ input = <<>>
  /\ result = [status |-> "pending", instruction |-> "", args |-> <<>>, message |-> ""]

\* get(moduleId): the cached scope, or the start of a resolution
Get ==
  \E m \in Modules :
    /\ stack = <<>>
    /\ root' = m
    /\ IF cache[m] # None
         THEN resolved' = cache[m][1] /\ stack' = <<>>
         ELSE resolved' = <<>> /\ stack' = <<Frame(m)>>
    /\ UNCHANGED <<graph, cache, instrVars>>

\* the module on top of the traversal enters an import not yet resolved
VisitImport ==
  /\ stack # <<>>
  /\ LET d == Len(stack)
         top == stack[d]
     IN  \E b \in top.todo :
           /\ ~InProgress(b)
           /\ cache[b] = None
           /\ stack' = Append([stack EXCEPT ![d].todo = top.todo \ {b}], Frame(b))
  /\ UNCHANGED <<graph, cache, root, resolved, instrVars>>

\* an import whose scope is cached contributes its exported symbols
VisitCached ==
  /\ stack # <<>>
  /\ LET d == Len(stack)
         top == stack[d]
     IN  \E b \in top.todo :
           /\ ~InProgress(b)
           /\ cache[b] # None
           /\ stack' = [stack EXCEPT ![d].todo = top.todo \ {b},
                                     ![d].acc = AddAll(top.acc, Exported(graph, b, cache[b][1]))]
  /\ UNCHANGED <<graph, cache, root, resolved, instrVars>>

\* an import that is itself mid-resolution is not re-entered: it contributes
\* what it exports of the symbols it already knows
RevisitInProgress ==
  /\ stack # <<>>
  /\ LET d == Len(stack)
         top == stack[d]
     IN  \E b \in top.todo :
           /\ InProgress(b)
           /\ stack' = [stack EXCEPT ![d].todo = top.todo \ {b},
                                     ![d].acc = AddAll(top.acc, Exported(graph, b, FrameOf(b).acc))]
  /\ UNCHANGED <<graph, cache, root, resolved, instrVars>>

\* an import is resolved: its exported symbols join the importing module's scope
Return ==
  /\ Len(stack) > 1
  /\ LET d == Len(stack)
         top == stack[d]
         parent == stack[d - 1]
     IN  /\ top.todo = {}
         /\ stack' = [SubSeq(stack, 1, d - 1) EXCEPT
                        ![d - 1].acc = AddAll(parent.acc, Exported(graph, top.module, top.acc))]
  /\ UNCHANGED <<graph, cache, root, resolved, instrVars>>

\* the queried module is resolved: its scope is cached and returned
Finish ==
  /\ Len(stack) = 1
  /\ stack[1].todo = {}
  /\ resolved' = stack[1].acc
  /\ cache' = [cache EXCEPT ![root] = Some(stack[1].acc)]
  /\ stack' = <<>>
  /\ UNCHANGED <<graph, root, instrVars>>

\* invalidateAll(): the whole cache is dropped
InvalidateAll ==
  /\ stack = <<>>
  /\ cache' = [m \in Modules |-> None]
  /\ UNCHANGED <<graph, stack, root, resolved, instrVars>>

ResolveStep == VisitImport \/ VisitCached \/ RevisitInProgress \/ Return \/ Finish

ScopeNext ==
  \/ Get
  \/ VisitImport
  \/ VisitCached
  \/ RevisitInProgress
  \/ Return
  \/ Finish
  \/ InvalidateAll

ScopeSpec == ScopeInit /\ [][ScopeNext]_vars

\* resolution is synchronous: once started it runs to completion
ScopeFairSpec == ScopeSpec /\ WF_vars(ResolveStep)

(***************************************************************************)
(* The calls the pipeline can make: Init draws one call (helper and        *)
(* arguments); the helper's action runs it and records what it produced.   *)
(***************************************************************************)
Pending == [status |-> "pending", instruction |-> "", args |-> <<>>, message |-> ""]

ElementInputs ==
  [slot : Slots, tag : {Some(t) : t \in Tags}, constIndex : NullableIndexes, localRefIndex : NullableIndexes]

ContainerInputs ==
  [slot : Slots, tag : {None}, constIndex : NullableIndexes, localRefIndex : NullableIndexes]

NextContextInputs == [steps : 0..MaxSteps]

TextInputs == [slot : Slots, initialValue : StringValues]

TextInterpolateInputs ==
  UNION { [strings : StringSeqs(ns), expressions : ExprSeqs(ne)] :
            ns \in 0..MaxStrings, ne \in 0..MaxExprs }

CallVariadicInputs ==
  [config : Configs,
   baseArgs : {<<>>, <<LitNum(0)>>},
   interpolationArgs : {[i \in 1..k |-> Expr(i)] : k \in 0..MaxVariadicArgs}]

InstrInit ==
  /\ result = Pending
  /\ \/ fn \in {"element", "elementStart"} /\ input \in ElementInputs
     \/ fn \in {"elementContainerStart", "elementContainer"} /\ input \in ContainerInputs
     \/ fn = "nextContext" /\ input \in NextContextInputs
     \/ fn = "text" /\ input \in TextInputs
     \/ fn = "textInterpolate" /\ input \in TextInterpolateInputs
     \/ fn = "callVariadicInstructionExpr" /\ input \in CallVariadicInputs

Init == InstrInit /\ ScopeIdle

Element ==
  /\ fn = "element" /\ result = Pending
  /\ result' = ElementFn(input.slot, input.tag[1], input.constIndex, input.localRefIndex)
  /\ UNCHANGED <<fn, input, scopeVars>>

ElementStart ==
  /\ fn = "elementStart" /\ result = Pending
  /\ result' = ElementStartFn(input.slot, input.tag[1], input.constIndex, input.localRefIndex)
  /\ UNCHANGED <<fn, input, scopeVars>>

ElementContainerStart ==
  /\ fn = "elementContainerStart" /\ result = Pending
  /\ result' = ElementContainerStartFn(input.slot, input.constIndex, input.localRefIndex)
  /\ UNCHANGED <<fn, input, scopeVars>>

ElementContainer ==
  /\ fn = "elementContainer" /\ result = Pending
  /\ result' = ElementContainerFn(input.slot, input.constIndex, input.localRefIndex)
  /\ UNCHANGED <<fn, input, scopeVars>>

NextContext ==
  /\ fn = "nextContext" /\ result = Pending
  /\ result' = NextContextFn(input.steps)
  /\ UNCHANGED <<fn, input, scopeVars>>

Text ==
  /\ fn = "text" /\ result = Pending
  /\ result' = TextFn(input.slot, input.initialValue)
  /\ UNCHANGED <<fn, input, scopeVars>>

TextInterpolate ==
  /\ fn = "textInterpolate" /\ result = Pending
  /\ result' = TextInterpolateFn(input.strings, input.expressions)
  /\ UNCHANGED <<fn, input, scopeVars>>

CallVariadic ==
  /\ fn = "callVariadicInstructionExpr" /\ result = Pending
  /\ result' = CallVariadicInstructionExpr(input.config, input.baseArgs, input.interpolationArgs)
  /\ UNCHANGED <<fn, input, scopeVars>>

Next ==
  \/ Element
  \/ ElementStart
  \/ ElementContainerStart
  \/ ElementContainer
  \/ NextContext
  \/ Text
  \/ TextInterpolate
  \/ CallVariadic

Spec == Init /\ [][Next]_vars

(***************************************************************************)
(* Properties of the instruction helpers.                                  *)
(***************************************************************************)
Done == result # Pending

\* C1: element/elementStart (tag given) and elementContainer/
\* elementContainerStart (no tag) call their own instruction with exactly
\* literal(slot), then literal(tag) for the element forms only, then the pair
\* literal(constIndex), literal(localRefIndex) when localRefIndex is non-null
\* (a null literal standing for an absent constIndex), else literal(constIndex)
\* alone when it is non-null, else nothing; the arity is base, base+1 or base+2
\* with base 2 for elements and 1 for containers.
C1_ElementArgs ==
  (Done /\ fn \in {"element", "elementStart", "elementContainer", "elementContainerStart"}) =>
    LET isElement == fn \in {"element", "elementStart"}
        base == IF isElement THEN 2 ELSE 1
        a == result.args
        n == Len(a)
    IN  /\ result.status = "ok"
        /\ result.instruction = fn
        /\ isElement <=> (input.tag # None)
        /\ n >= base
        /\ a[1] = LitNum(input.slot)
        /\ isElement => a[2] = LitStr(input.tag[1])
        /\ IF input.localRefIndex # None
             THEN /\ n = base + 2
                  /\ a[n] = LitNum(input.localRefIndex[1])
                  /\ a[n - 1] = (IF input.constIndex = None THEN LitNull
                                                          ELSE LitNum(input.constIndex[1]))
             ELSE IF input.constIndex # None
                    THEN n = base + 1 /\ a[n] = LitNum(input.constIndex[1])
                    ELSE n = base

C1_Witness ==
  /\ fn = "elementContainer" /\ Done
  /\ input.constIndex = None /\ input.localRefIndex # None
  /\ Len(result.args) = 3 /\ result.args[2] = LitNull

\* C2: textInterpolate throws, producing no call, exactly when strings is
\* empty or expressions.length # strings.length - 1; in particular for every
\* input of even combined length; otherwise it returns an operation.
C2_ShapeCheck ==
  (Done /\ fn = "textInterpolate") =>
    LET ns == Len(input.strings)
        ne == Len(input.expressions)
        bad == ns = 0 \/ ne # ns - 1
    IN  /\ bad => (result.status = "throw" /\ result.instruction = "" /\ result.args = <<>>)
        /\ ~bad => result.status = "ok"
        /\ ((ns + ne) % 2 = 0) => result.status = "throw"

C2_Witness ==
  /\ fn = "textInterpolate" /\ Done
  /\ Len(input.strings) = 2 /\ Len(input.expressions) = 2
  /\ result.status = "throw" /\ result.message = ShapeError

\* C3 as stated: with n expressions and n+1 strings, n in 0..8, the call is to
\* the constant form at index n with the 2n+1 interleaved arguments.
C3_Original ==
  (Done /\ fn = "textInterpolate"
        /\ Len(input.expressions) \in 0..8
        /\ Len(input.strings) = Len(input.expressions) + 1) =>
    LET n == Len(input.expressions)
        names == << "textInterpolate", "textInterpolate1", "textInterpolate2",
                    "textInterpolate3", "textInterpolate4", "textInterpolate5",
                    "textInterpolate6", "textInterpolate7", "textInterpolate8" >>
    IN  /\ result.status = "ok"
        /\ result.instruction = names[n + 1]
        /\ Len(result.args) = 2 * n + 1
        /\ \A i \in 1..(n + 1) : result.args[2 * i - 1] = LitStr(input.strings[i])
        /\ \A i \in 1..n : result.args[2 * i] = input.expressions[i]

\* C3 (amended): the same, for every such input except the single expression
\* between two empty strings.
C3_ConstantForm ==
  (Done /\ fn = "textInterpolate"
        /\ Len(input.expressions) \in 0..8
        /\ Len(input.strings) = Len(input.expressions) + 1
        /\ ~(Len(input.expressions) = 1 /\ input.strings = <<"", "">>)) =>
    LET n == Len(input.expressions)
        names == << "textInterpolate", "textInterpolate1", "textInterpolate2",
                    "textInterpolate3", "textInterpolate4", "textInterpolate5",
                    "textInterpolate6", "textInterpolate7", "textInterpolate8" >>
    IN  /\ result.status = "ok"
        /\ result.instruction = names[n + 1]
        /\ Len(result.args) = 2 * n + 1
        /\ \A i \in 1..(n + 1) : result.args[2 * i - 1] = LitStr(input.strings[i])
        /\ \A i \in 1..n : result.args[2 * i] = input.expressions[i]

C3_Witness ==
  /\ fn = "textInterpolate" /\ Done
  /\ Len(input.expressions) = 8 /\ Len(input.strings) = 9
  /\ input.strings[1] = "" /\ input.strings[2] = ""
  /\ result.instruction = "textInterpolate8" /\ Len(result.args) = 17

\* C4: one expression between two empty strings is emitted as
\* textInterpolate(expression); if either string is non-empty the call is
\* textInterpolate1(string, expression, string).
C4_Degenerate ==
  (Done /\ fn = "textInterpolate"
        /\ Len(input.expressions) = 1 /\ Len(input.strings) = 2) =>
    IF input.strings[1] = "" /\ input.strings[2] = ""
      THEN /\ result.status = "ok"
           /\ result.instruction = "textInterpolate"
           /\ result.args = <<input.expressions[1]>>
      ELSE /\ result.status = "ok"
           /\ result.instruction = "textInterpolate1"
           /\ result.args = <<LitStr(input.strings[1]), input.expressions[1],
                              LitStr(input.strings[2])>>

C4_Witness ==
  /\ fn = "textInterpolate" /\ Done
  /\ Len(input.expressions) = 1 /\ input.strings = <<"", "">>
  /\ result.instruction = "textInterpolate" /\ Len(result.args) = 1

\* C5: with n >= 9 expressions and n+1 strings the call is to textInterpolateV
\* with one argument, an array literal holding the 2n+1 interleaved arguments
\* in their original order.
C5_VariableForm ==
  (Done /\ fn = "textInterpolate"
        /\ Len(input.expressions) >= 9
        /\ Len(input.strings) = Len(input.expressions) + 1) =>
    LET n == Len(input.expressions)
    IN  /\ result.status = "ok"
        /\ result.instruction = "textInterpolateV"
        /\ Len(result.args) = 1
        /\ result.args[1].kind = "literalArr"
        /\ Len(result.args[1].entries) = 2 * n + 1
        /\ \A i \in 1..(n + 1) : result.args[1].entries[2 * i - 1] = LitStr(input.strings[i])
        /\ \A i \in 1..n : result.args[1].entries[2 * i] = input.expressions[i]

C5_Witness ==
  /\ fn = "textInterpolate" /\ Done
  /\ Len(input.expressions) = 9 /\ Len(input.strings) = 10
  /\ result.instruction = "textInterpolateV"
  /\ Len(result.args[1].entries) = 19

\* C6: nextContext(1) is called with no argument; nextContext(k) for every
\* other k (0 included) with exactly the literal k.
C6_NextContext ==
  (Done /\ fn = "nextContext") =>
    /\ result.status = "ok"
    /\ result.instruction = "nextContext"
    /\ (input.steps = 1) => result.args = <<>>
    /\ (input.steps # 1) => result.args = <<LitNum(input.steps)>>

C6_Witness ==
  /\ fn = "nextContext" /\ Done
  /\ input.steps = 0 /\ Len(result.args) = 1

\* C7: text(slot, initialValue) calls text with literal(slot) first and
\* literal(initialValue) second iff initialValue is not the empty string.
C7_Text ==
  (Done /\ fn = "text") =>
    /\ result.status = "ok"
    /\ result.instruction = "text"
    /\ Len(result.args) >= 1
    /\ result.args[1] = LitNum(input.slot)
    /\ (input.initialValue = "") <=> (Len(result.args) = 1)
    /\ (input.initialValue # "") =>
         (Len(result.args) = 2 /\ result.args[2] = LitStr(input.initialValue))

C7_Witness ==
  /\ fn = "text" /\ Done
  /\ input.initialValue = "" /\ Len(result.args) = 1

\* C9: the collapser is a total three-way split on n = mapping(argument count):
\* n below the number of constant forms calls constant[n] with baseArgs then
\* every variadic argument; otherwise a configured variable form is called
\* with baseArgs then one packed array; otherwise it throws.  Under the text
\* interpolation mapping every even argument count throws first.
C9_Collapser ==
  (Done /\ fn = "callVariadicInstructionExpr") =>
    LET len == Len(input.interpolationArgs)
        isText == input.config.mapping = "textInterpolate"
        n == IF isText THEN (len - 1) \div 2 ELSE len
        nc == Len(input.config.constant)
    IN  IF isText /\ len % 2 = 0
          THEN result.status = "throw" /\ result.message = OddError /\ result.args = <<>>
        ELSE IF n < nc
          THEN /\ result.status = "ok"
               /\ result.instruction = input.config.constant[n + 1]
               /\ result.args = input.baseArgs \o input.interpolationArgs
        ELSE IF input.config.variable # None
          THEN /\ result.status = "ok"
               /\ result.instruction = input.config.variable[1]
               /\ Len(result.args) = Len(input.baseArgs) + 1
               /\ SubSeq(result.args, 1, Len(input.baseArgs)) = input.baseArgs
               /\ result.args[Len(result.args)].kind = "literalArr"
               /\ result.args[Len(result.args)].entries = input.interpolationArgs
        ELSE result.status = "throw" /\ result.message = VariadicError

C9_Witness ==
  /\ fn = "callVariadicInstructionExpr" /\ Done
  /\ input.config.variable = None
  /\ input.config.mapping = "textInterpolate"
  /\ Len(input.config.constant) = 3
  /\ Len(input.interpolationArgs) = 7
  /\ result.status = "throw" /\ result.message = VariadicError

\* C10: for every input passing the shape check the variadic argument list has
\* odd length (1 in the degenerate case, 2n+1 otherwise), textInterpolate
\* does not throw, and a chosen constant form at index i receives exactly
\* 2i+1 arguments.
C10_Arity ==
  (Done /\ fn = "textInterpolate"
        /\ Len(input.strings) >= 1
        /\ Len(input.expressions) = Len(input.strings) - 1) =>
    LET n == Len(input.expressions)
        degenerate == n = 1 /\ input.strings = <<"", "">>
        len == Len(InterpolationArgs(input.strings, input.expressions))
        names == << "textInterpolate", "textInterpolate1", "textInterpolate2",
                    "textInterpolate3", "textInterpolate4", "textInterpolate5",
                    "textInterpolate6", "textInterpolate7", "textInterpolate8" >>
    IN  /\ len % 2 = 1
        /\ len = (IF degenerate THEN 1 ELSE 2 * n + 1)
        /\ result.status = "ok"
        /\ result.message \notin {OddError, VariadicError}
        /\ \A i \in 0..8 :
             result.instruction = names[i + 1] => Len(result.args) = 2 * i + 1

C10_Witness ==
  /\ fn = "textInterpolate" /\ Done
  /\ Len(input.expressions) = 3 /\ Len(input.strings) = 4
  /\ result.instruction = "textInterpolate3" /\ Len(result.args) = 7

(***************************************************************************)
(* Properties of the module scope registry.                                *)
(***************************************************************************)
HasCycleAB == "B" \in graph.imports["A"] /\ "A" \in graph.imports["B"]

C8_Safe ==
  /\ \A i, j \in 1..Len(stack) : stack[i].module = stack[j].module => i = j
  /\ (HasCycleAB /\ root = "A" /\ stack = <<>>) =>
       LET visibleInB == graph.declared["B"] \cup (graph.exports["A"] \cap graph.declared["A"])
           exportedByB == graph.exports["B"] \cap visibleInB
       IN  /\ Range(resolved) = graph.declared["A"] \cup exportedByB
           /\ \A i, j \in 1..Len(resolved) : resolved[i] = resolved[j] => i = j

\* C8: with the import cycle A -> B -> A, resolving A terminates and yields
\* A's declared symbols plus the symbols B exports (not all B declares),
\* without duplicate entries; no module is entered again while its own
\* resolution is in progress.
C8_Cycle ==
  /\ []C8_Safe
  /\ (HasCycleAB /\ root = "A" /\ stack # <<>>) ~> (root = "A" /\ stack = <<>>)

C8_Witness ==
  /\ HasCycleAB /\ root = "A" /\ stack = <<>> /\ cache["A"] # None
  /\ graph.declared["B"] = {1, 2} /\ graph.exports["B"] = {1}
  /\ resolved = <<1>>

====
